---- MODULE Spec2Model ----
(***************************************************************************)
(* Model of src/src/components/Table.tsx (ArtworksTable): a lazily paged   *)
(* table over a remote collection with a selection set that spans pages.   *)
(*                                                                         *)
(* A record is represented by its id; the remote collection is the ordered *)
(* list of ids 1..NumRecords.  Every handler and every fetch resolution is *)
(* one atomic step (single-threaded event loop; the code after an await    *)
(* runs to the next await without interleaving).                           *)
(***************************************************************************)
EXTENDS Bags, FiniteSets, Integers, Sequences, TLC

\* ---- bounds of the model -------------------------------------------------
NumRecords == 12      \* size of the remote collection
MaxInflight == 2      \* page-change fetches that may be in flight together
MaxOps == 4           \* user interactions in one run

\* Entries typed into the row-count field
CountInputs == {0, 3, NumRecords - 1, NumRecords}

\* ---- constants of the program --------------------------------------------
DefaultRows == 10
RowsPerPageOptions == {5, 10, 15}

VARIABLES
    artworks,          \* useState<Artwork[]>: the displayed records (ids)
    loading,           \* useState<boolean>
    totalRecords,      \* useState<number>
    lazyState,         \* useState<LazyState>: [first, rows, page]
    selectedIds,       \* useState<Set<number>>: content of the current Set
    rowCountToSelect,  \* useState<number>
    mounted,           \* has the first effect run
    pageInflight,      \* bag of page-change fetches awaiting their response
    bulk,              \* the onSelectRows invocation (its closure and locals)
    lastResolved,      \* history: the page-change fetch that resolved last
    last,              \* history: the step taken last
    ops                \* number of user interactions so far

vars == <<artworks, loading, totalRecords, lazyState, selectedIds,
          rowCountToSelect, mounted, pageInflight, bulk, lastResolved,
          last, ops>>

\* ---- helpers ---------------------------------------------------------------
Ids == 1..NumRecords

Min(a, b) == IF a < b THEN a ELSE b

Range(s) == {s[i] : i \in DOMAIN s}

\* Math.ceil(a / b) for a >= 0, b > 0
Ceil(a, b) == (a + b - 1) \div b

\* The remote endpoint: page `page` (1-based) of `rows` records, in server
\* order; a page past the end of the collection is empty.
ServerPage(page, rows) ==
    LET lo == (page - 1) * rows + 1
        hi == Min(page * rows, NumRecords)
    IN  IF lo > hi THEN <<>> ELSE [i \in 1..(hi - lo + 1) |-> lo + i - 1]

\* data.pagination.total
ServerTotal == NumRecords

\* Array.prototype.slice(0, n) for n >= 0
Slice0(s, n) == SubSeq(s, 1, Min(n, Len(s)))

\* ---- the bulk-selection task -------------------------------------------------
\* The closure of one onSelectRows call: the state it captured when it was
\* called, its locals, and bookkeeping about what it has done.
NoTask ==
    [pc |-> "idle",
     k |-> 0, startPage |-> 0, rows |-> 0, total |-> 0,
     capSel |-> {}, aliased |-> FALSE,
     updated |-> {}, remaining |-> 0, currentPage |-> 0,
     sel0 |-> {}, issued |-> {}, pending |-> {}, failed |-> {},
     failedAt |-> 0,
     settled |-> FALSE, disturbed |-> FALSE]

\* A finished task is kept for one step (for inspection) and then dropped.
Retire(t) == IF t.pc = "done" THEN NoTask ELSE t

\* setSelectedIds(<a new Set>) by another handler while a task is suspended:
\* the task's captured Set is no longer the current state object.
Detach(t) ==
    IF t.pc = "fetching"
    THEN [t EXCEPT !.aliased = FALSE, !.disturbed = TRUE]
    ELSE Retire(t)

NoLast == [kind |-> "init", id |-> 0, pre |-> {}, vis |-> <<>>]

Step(kind) == [NoLast EXCEPT !.kind = kind]

NoResolved ==
    [page |-> 0, rows |-> 0, ok |-> FALSE, snapRecs |-> <<>>, snapTot |-> 0]

\* ---- initial state --------------------------------------------------------
Init ==
    /\ artworks = <<>>
    /\ loading = FALSE
    /\ totalRecords = 0
    /\ lazyState = [first |-> 0, rows |-> DefaultRows, page |-> 1]
    /\ selectedIds = {}
    /\ rowCountToSelect = 0
    /\ mounted = FALSE
    /\ pageInflight = EmptyBag
    /\ bulk = NoTask
    /\ lastResolved = NoResolved
    /\ last = NoLast
    /\ ops = 0

\* ---- paging -----------------------------------------------------------------
\* The request a page-change effect puts in flight (fetchData called from the
\* effect), with the records and total displayed when it was issued.
PageRequest(ls) ==
    [page |-> ls.page, rows |-> ls.rows, snapRecs |-> artworks,
     snapTot |-> totalRecords]

\* useEffect on mount: fetch the initial page.
Mount ==
    /\ ~mounted
    /\ mounted' = TRUE
    /\ loading' = TRUE
    /\ pageInflight' = pageInflight (+) SetToBag({PageRequest(lazyState)})
    /\ last' = Step("mount")
    /\ bulk' = Retire(bulk)
    /\ UNCHANGED <<artworks, totalRecords, lazyState, selectedIds,
                   rowCountToSelect, lastResolved, ops>>

\* Number of pages the paginator offers for a page size.
PageCount(rows) == IF totalRecords = 0 THEN 1 ELSE Ceil(totalRecords, rows)

\* (variant: the page index is left zero-based)
onPage_ZeroBased(first, rows) ==
    LET ls == [first |-> first, rows |-> rows, page |-> first \div rows]
    IN  /\ mounted
        /\ ops < MaxOps
        /\ BagCardinality(pageInflight) < MaxInflight
        /\ lazyState' = ls
        /\ loading' = TRUE
        /\ pageInflight' = pageInflight (+) SetToBag({PageRequest(ls)})
        /\ last' = Step("page")
        /\ bulk' = Retire(bulk)
        /\ ops' = ops + 1
        /\ UNCHANGED <<artworks, totalRecords, selectedIds, rowCountToSelect,
                       mounted, lastResolved>>

\* onPage(event) followed by the effect that lazyState's change triggers.
onPage(first, rows) ==
    LET ls == [first |-> first, rows |-> rows, page |-> (first \div rows) + 1]
    IN  /\ mounted
        /\ ops < MaxOps
        /\ BagCardinality(pageInflight) < MaxInflight
        /\ lazyState' = ls
        /\ loading' = TRUE
        /\ pageInflight' = pageInflight (+) SetToBag({PageRequest(ls)})
        /\ last' = Step("page")
        /\ bulk' = Retire(bulk)
        /\ ops' = ops + 1
        /\ UNCHANGED <<artworks, totalRecords, selectedIds, rowCountToSelect,
                       mounted, lastResolved>>

\* (variant: the catch branch hands back the records already displayed)
FetchResult_KeepsOnFailure(page, rows, ok) ==
    IF ok THEN ServerPage(page, rows) ELSE artworks

\* What fetchData returns to its caller.
FetchResult(page, rows, ok) == IF ok THEN ServerPage(page, rows) ELSE <<>>

\* (variant: the catch branch resets the total)
TotalAfter_ResetsOnFailure(ok) == IF ok THEN ServerTotal ELSE 0

\* The stored total after fetchData has resolved.
TotalAfter(ok) == IF ok THEN ServerTotal ELSE totalRecords

\* (variant: loading a page drops the selected ids that are not on it)
PageResolve_DropsOffPage(req, ok) ==
    /\ BagIn(req, pageInflight)
    /\ pageInflight' = pageInflight (-) SetToBag({req})
    /\ totalRecords' = TotalAfter(ok)
    /\ loading' = FALSE
    /\ artworks' = FetchResult(req.page, req.rows, ok)
    /\ selectedIds' = selectedIds \cap Range(FetchResult(req.page, req.rows, ok))
    /\ lastResolved' = [page |-> req.page, rows |-> req.rows, ok |-> ok,
                        snapRecs |-> req.snapRecs, snapTot |-> req.snapTot]
    /\ last' = Step(IF ok THEN "pageOk" ELSE "pageFail")
    /\ bulk' = Retire(bulk)
    /\ UNCHANGED <<lazyState, rowCountToSelect, mounted, ops>>

\* (variant: a response for a page that is no longer the current one is
\* discarded)
PageResolve_DropsStale(req, ok) ==
    /\ BagIn(req, pageInflight)
    /\ pageInflight' = pageInflight (-) SetToBag({req})
    /\ totalRecords' = TotalAfter(ok)
    /\ loading' = FALSE
    /\ artworks' = IF req.page = lazyState.page /\ req.rows = lazyState.rows
                   THEN FetchResult(req.page, req.rows, ok)
                   ELSE artworks
    /\ lastResolved' = [page |-> req.page, rows |-> req.rows, ok |-> ok,
                        snapRecs |-> req.snapRecs, snapTot |-> req.snapTot]
    /\ last' = Step(IF ok THEN "pageOk" ELSE "pageFail")
    /\ bulk' = Retire(bulk)
    /\ UNCHANGED <<lazyState, selectedIds, rowCountToSelect, mounted, ops>>

\* (variant: setLoading(false) in the try block instead of finally)
PageResolve_NoFinally(req, ok) ==
    /\ BagIn(req, pageInflight)
    /\ pageInflight' = pageInflight (-) SetToBag({req})
    /\ totalRecords' = TotalAfter(ok)
    /\ loading' = IF ok THEN FALSE ELSE loading
    /\ artworks' = FetchResult(req.page, req.rows, ok)
    /\ lastResolved' = [page |-> req.page, rows |-> req.rows, ok |-> ok,
                        snapRecs |-> req.snapRecs, snapTot |-> req.snapTot]
    /\ last' = Step(IF ok THEN "pageOk" ELSE "pageFail")
    /\ bulk' = Retire(bulk)
    /\ UNCHANGED <<lazyState, selectedIds, rowCountToSelect, mounted, ops>>

\* A page-change fetch resolves (ok: the remote call succeeded):
\* setTotalRecords on success, setLoading(false), then setArtworks(result).
PageResolve(req, ok) ==
    /\ BagIn(req, pageInflight)
    /\ pageInflight' = pageInflight (-) SetToBag({req})
    /\ totalRecords' = TotalAfter(ok)
    /\ loading' = FALSE
    /\ artworks' = FetchResult(req.page, req.rows, ok)
    /\ lastResolved' = [page |-> req.page, rows |-> req.rows, ok |-> ok,
                        snapRecs |-> req.snapRecs, snapTot |-> req.snapTot]
    /\ last' = Step(IF ok THEN "pageOk" ELSE "pageFail")
    /\ bulk' = Retire(bulk)
    /\ UNCHANGED <<lazyState, selectedIds, rowCountToSelect, mounted, ops>>

\* ---- direct selection -----------------------------------------------------
\* The DataTable's `selection` prop: the displayed records that are selected.
Selection == SelectSeq(artworks, LAMBDA a : a \in selectedIds)

\* e.value of onSelectionChange when the checkbox of row i is clicked: the
\* `selection` prop without that record, or with it appended.
ToggledValue(i) ==
    IF artworks[i] \in selectedIds
    THEN SelectSeq(Selection, LAMBDA a : a # artworks[i])
    ELSE Append(Selection, artworks[i])

\* onSelectionChange: setSelectedIds(new Set(e.value.map(a => a.id)))
onSelectionChange(i) ==
    /\ i \in DOMAIN artworks
    /\ ops < MaxOps
    /\ selectedIds' = Range(ToggledValue(i))
    /\ bulk' = Detach(bulk)
    /\ last' = [Step("toggle") EXCEPT !.id = artworks[i]]
    /\ ops' = ops + 1
    /\ UNCHANGED <<artworks, loading, totalRecords, lazyState,
                   rowCountToSelect, mounted, pageInflight, lastResolved>>

\* (variant: without the length test)
HeaderChecked_NoLengthGuard ==
    \A i \in DOMAIN artworks : artworks[i] \in selectedIds

\* `checked` of the header checkbox
HeaderChecked ==
    Len(artworks) > 0 /\ \A i \in DOMAIN artworks : artworks[i] \in selectedIds

\* (variant: unchecking empties the whole Set)
AfterSelectAll_ClearsAll(checked) ==
    IF checked THEN selectedIds \cup Range(artworks) ELSE {}

\* (variant: the delete loop stops one record short)
AfterSelectAll_KeepsLast(checked) ==
    IF checked THEN selectedIds \cup Range(artworks)
               ELSE selectedIds \ Range(SubSeq(artworks, 1, Len(artworks) - 1))

\* (variant: the add loop starts at the second record)
AfterSelectAll_SkipsFirst(checked) ==
    IF checked
    THEN selectedIds \cup Range(SubSeq(artworks, 2, Len(artworks)))
    ELSE selectedIds \ Range(artworks)

\* The Set after onSelectAll's forEach
AfterSelectAll(checked) ==
    IF checked THEN selectedIds \cup Range(artworks)
               ELSE selectedIds \ Range(artworks)

\* onSelectAll(e): the forEach mutates the current Set in place (a suspended
\* task that captured this Set sees the change), then a copy becomes the state.
\* The checkbox reports the negation of its `checked` prop.
onSelectAll(checked) ==
    /\ mounted
    /\ ops < MaxOps
    /\ checked = ~HeaderChecked
    /\ selectedIds' = AfterSelectAll(checked)
    /\ bulk' = IF bulk.pc = "fetching" /\ bulk.aliased
               THEN [bulk EXCEPT !.capSel = AfterSelectAll(checked),
                                 !.aliased = FALSE, !.disturbed = TRUE]
               ELSE Detach(bulk)
    /\ last' = IF checked
               THEN [Step("selectAll") EXCEPT !.pre = selectedIds,
                                              !.vis = artworks]
               ELSE IF last.kind = "selectAll" /\ last.vis = artworks
                    THEN [Step("roundTrip") EXCEPT !.pre = last.pre,
                                                   !.vis = artworks]
                    ELSE Step("deselectAll")
    /\ ops' = ops + 1
    /\ UNCHANGED <<artworks, loading, totalRecords, lazyState,
                   rowCountToSelect, mounted, pageInflight, lastResolved>>

\* "Clear Selection": setSelectedIds(new Set())
ClearSelection ==
    /\ mounted
    /\ ops < MaxOps
    /\ selectedIds' = {}
    /\ bulk' = Detach(bulk)
    /\ last' = Step("clear")
    /\ ops' = ops + 1
    /\ UNCHANGED <<artworks, loading, totalRecords, lazyState,
                   rowCountToSelect, mounted, pageInflight, lastResolved>>

\* ---- bulk selection ----------------------------------------------------------
\* InputNumber min={1} max={totalRecords}: the value it reports for an entry v
\* (0 stands for the emptied field, reported as null, which `> 0` rejects).
InputValue(v) ==
    IF v = 0 THEN 0
    ELSE IF v < 1 THEN 1
    ELSE IF v > totalRecords THEN totalRecords
    ELSE v

\* onValueChange: setRowCountToSelect(e.value)
onValueChange(v) ==
    /\ mounted
    /\ ops < MaxOps
    /\ rowCountToSelect' = InputValue(v)
    /\ last' = Step("setCount")
    /\ bulk' = Retire(bulk)
    /\ ops' = ops + 1
    /\ UNCHANGED <<artworks, loading, totalRecords, lazyState, selectedIds,
                   mounted, pageInflight, lastResolved>>

\* pageArtworks.filter(artwork => !isSelected(artwork.id)); isSelected reads
\* the Set the task captured.
Unselected(t, pageArtworks) ==
    SelectSeq(pageArtworks, LAMBDA a : a \notin t.capSel)

\* (variant: every unselected record of the page is taken, without the slice)
LoopBody_NoSlice(t, pageArtworks) ==
    LET rowsToSelect == Unselected(t, pageArtworks)
    IN  [t EXCEPT !.updated = @ \cup Range(rowsToSelect),
                  !.remaining = @ - Len(rowsToSelect),
                  !.currentPage = @ + 1]

\* One pass of the loop body once pageArtworks is known: filter, slice, add,
\* decrement, advance.
LoopBody(t, pageArtworks) ==
    LET rowsToSelect == Slice0(Unselected(t, pageArtworks), t.remaining)
    IN  [t EXCEPT !.updated = @ \cup Range(rowsToSelect),
                  !.remaining = @ - Len(rowsToSelect),
                  !.currentPage = @ + 1]

\* The loop goes round again: no `break`, and the while condition holds.
\* totalRecords and lazyState.rows are the values the task captured.
LoopContinues(t) ==
    /\ ~(t.currentPage > Ceil(t.total, t.rows))
    /\ t.remaining > 0

\* (variant: the next page is requested together with the current one)
Advance_Prefetches(t) ==
    IF LoopContinues(t)
    THEN [t EXCEPT !.pc = "fetching",
                   !.issued = @ \cup {t.currentPage, t.currentPage + 1},
                   !.pending = @ \cup {t.currentPage, t.currentPage + 1}]
    ELSE [t EXCEPT !.pc = "done"]

\* After the loop body: either the next pass calls fetchData for currentPage
\* (which is past the start page by now) and suspends, or the loop is over.
Advance(t) ==
    IF LoopContinues(t)
    THEN [t EXCEPT !.pc = "fetching", !.issued = @ \cup {t.currentPage},
                   !.pending = @ \cup {t.currentPage}]
    ELSE [t EXCEPT !.pc = "done"]

\* The displayed records are the current page's and the total is loaded.
Settled ==
    /\ artworks = ServerPage(lazyState.page, lazyState.rows)
    /\ totalRecords = ServerTotal

\* (variant: updatedSelection starts as an empty Set)
onSelectRows_FreshSet ==
    LET t0 == [NoTask EXCEPT !.k = rowCountToSelect,
                             !.startPage = lazyState.page,
                             !.rows = lazyState.rows,
                             !.total = totalRecords,
                             !.capSel = selectedIds,
                             !.aliased = TRUE,
                             !.updated = {},
                             !.remaining = rowCountToSelect,
                             !.currentPage = lazyState.page,
                             !.sel0 = selectedIds,
                             !.settled = Settled]
        t1 == IF t0.remaining > 0
              THEN Advance(LoopBody(t0, artworks))
              ELSE [t0 EXCEPT !.pc = "done"]
    IN  /\ mounted
        /\ ops < MaxOps
        /\ bulk.pc # "fetching"
        /\ bulk' = t1
        /\ selectedIds' = IF t1.pc = "done" THEN t1.updated ELSE selectedIds
        /\ loading' = IF t1.pc = "fetching" THEN TRUE ELSE loading
        /\ last' = Step(IF t1.pc = "done" THEN "bulkDone" ELSE "bulkStart")
        /\ ops' = ops + 1
        /\ UNCHANGED <<artworks, totalRecords, lazyState, rowCountToSelect,
                       mounted, pageInflight, lastResolved>>

\* onSelectRows up to its first await (or to its end, if it never awaits).
\* One invocation runs at a time in the model.
onSelectRows ==
    LET t0 == [NoTask EXCEPT !.k = rowCountToSelect,
                             !.startPage = lazyState.page,
                             !.rows = lazyState.rows,
                             !.total = totalRecords,
                             !.capSel = selectedIds,
                             !.aliased = TRUE,
                             !.updated = selectedIds,
                             !.remaining = rowCountToSelect,
                             !.currentPage = lazyState.page,
                             !.sel0 = selectedIds,
                             !.settled = Settled]
        t1 == IF t0.remaining > 0
              THEN Advance(LoopBody(t0, artworks))
              ELSE [t0 EXCEPT !.pc = "done"]
    IN  /\ mounted
        /\ ops < MaxOps
        /\ bulk.pc # "fetching"
        /\ bulk' = t1
        /\ selectedIds' = IF t1.pc = "done" THEN t1.updated ELSE selectedIds
        /\ loading' = IF t1.pc = "fetching" THEN TRUE ELSE loading
        /\ last' = Step(IF t1.pc = "done" THEN "bulkDone" ELSE "bulkStart")
        /\ ops' = ops + 1
        /\ UNCHANGED <<artworks, totalRecords, lazyState, rowCountToSelect,
                       mounted, pageInflight, lastResolved>>

\* (variant: the fetched page is also put on display)
BulkResolve_ShowsPage(ok) ==
    LET t0 == [bulk EXCEPT !.pending = @ \ {bulk.currentPage},
                           !.failed = IF ok THEN @
                                      ELSE @ \cup {bulk.currentPage},
                           !.failedAt =
                              IF ~ok /\ @ = 0 THEN bulk.currentPage ELSE @]
        t1 == Advance(LoopBody(t0,
                               FetchResult(bulk.currentPage, bulk.rows, ok)))
    IN  /\ bulk.pc = "fetching"
        /\ bulk' = t1
        /\ totalRecords' = TotalAfter(ok)
        /\ loading' = (t1.pc = "fetching")
        /\ selectedIds' = IF t1.pc = "done" THEN t1.updated ELSE selectedIds
        /\ artworks' = FetchResult(bulk.currentPage, bulk.rows, ok)
        /\ last' = Step(IF t1.pc = "done" THEN "bulkDone" ELSE "bulkStep")
        /\ UNCHANGED <<lazyState, rowCountToSelect, mounted,
                       pageInflight, lastResolved, ops>>

\* The fetch a suspended onSelectRows awaits resolves; the task runs on to its
\* next await or to setSelectedIds(updatedSelection).
BulkResolve(ok) ==
    LET t0 == [bulk EXCEPT !.pending = @ \ {bulk.currentPage},
                           !.failed = IF ok THEN @
                                      ELSE @ \cup {bulk.currentPage},
                           !.failedAt =
                              IF ~ok /\ @ = 0 THEN bulk.currentPage ELSE @]
        t1 == Advance(LoopBody(t0,
                               FetchResult(bulk.currentPage, bulk.rows, ok)))
    IN  /\ bulk.pc = "fetching"
        /\ bulk' = t1
        /\ totalRecords' = TotalAfter(ok)
        /\ loading' = (t1.pc = "fetching")
        /\ selectedIds' = IF t1.pc = "done" THEN t1.updated ELSE selectedIds
        /\ last' = Step(IF t1.pc = "done" THEN "bulkDone" ELSE "bulkStep")
        /\ UNCHANGED <<artworks, lazyState, rowCountToSelect, mounted,
                       pageInflight, lastResolved, ops>>

\* ---- specification --------------------------------------------------------
\* Rows whose checkbox is clicked: the first and the last displayed one
TogglePositions == {1, Len(artworks)} \cap DOMAIN artworks

Next ==
    \/ Mount
    \/ \E rows \in RowsPerPageOptions : \E p \in 0..(PageCount(rows) - 1) :
          onPage(p * rows, rows)
    \/ \E req \in BagToSet(pageInflight) : \E ok \in BOOLEAN :
          PageResolve(req, ok)
    \/ \E i \in TogglePositions : onSelectionChange(i)
    \/ \E checked \in BOOLEAN : onSelectAll(checked)
    \/ ClearSelection
    \/ \E v \in CountInputs : onValueChange(v)
    \/ onSelectRows
    \/ \E ok \in BOOLEAN : BulkResolve(ok)

Spec == Init /\ [][Next]_vars

\* ---- properties -----------------------------------------------------------
\* Ids of the records from the task's start page to the end of the collection
FromStartPage(t) == {x \in Ids : x > (t.startPage - 1) * t.rows}

\* The first k of the records from the start page on, in server order, that
\* were not selected when the task was requested
FirstUnselected(t) ==
    LET cand == FromStartPage(t) \ t.sel0
    IN  {x \in cand : Cardinality({y \in cand : y <= x}) <= t.k}

\* A finished bulk selection all of whose fetches succeeded
BulkDoneOk == bulk.pc = "done" /\ bulk.failedAt = 0

\* ... that was requested on a settled page and that no other selection
\* operation overlapped
BulkDoneClean == BulkDoneOk /\ bulk.settled /\ ~bulk.disturbed

\* C1: toggling one visible row changes the membership of that row's id only;
\* every other id, in particular an id of a record on another page, keeps its
\* selection status.
C1_ToggleChangesOnlyThatRow ==
    [][last'.kind = "toggle" =>
          \A x \in Ids \ {last'.id} :
              (x \in selectedIds') <=> (x \in selectedIds)]_vars

\* C2: a page change (onPage, the fetch it triggers, and the resolution of
\* that fetch, successful or not, in any interleaving) neither adds an id to
\* the selection set nor removes one.
C2_PageChangeKeepsSelection ==
    [][last'.kind \in {"mount", "page", "pageOk", "pageFail"} =>
          selectedIds' = selectedIds]_vars

C2_Witness ==
    /\ last.kind \in {"pageOk", "pageFail"}
    /\ \E x \in selectedIds : x \notin Range(artworks)

C4_LoopStopsAtFailedPage ==
    bulk.failedAt # 0 =>
        /\ \A p \in bulk.issued : p <= bulk.failedAt
        /\ bulk.settled =>
              \A x \in bulk.updated \ bulk.sel0 :
                  x <= bulk.failedAt * bulk.rows

\* C5: with all fetches succeeding (and no other selection operation in
\* between) the ids a bulk selection adds are exactly the first min(k, u)
\* records from the first record of the start page on, in server order, that
\* were unselected at the request; the ids selected before stay selected.
C5_AddsFirstUnselected ==
    (BulkDoneOk /\ ~bulk.disturbed) =>
        /\ bulk.sel0 \subseteq selectedIds
        /\ selectedIds \ bulk.sel0 = FirstUnselected(bulk)

\* C6: a toggle, select-all, deselect-all or clear issued while a bulk
\* selection is suspended on a fetch is not lost when the bulk selection
\* completes: what was selected just before stays selected, and nothing
\* becomes selected except the ids the bulk selection picked.
C6_NoLostUpdate ==
    [][(bulk.pc = "fetching" /\ bulk'.pc = "done") =>
          /\ selectedIds \subseteq selectedIds'
          /\ selectedIds' \subseteq
                 selectedIds \cup (bulk'.updated \ bulk'.sel0)]_vars

\* C7 (as stated): after a failed page-change fetch has resolved, the records
\* and the total are those displayed when the page change was requested.
C7_FailedFetchKeepsRecords ==
    last.kind = "pageFail" =>
        /\ artworks = lastResolved.snapRecs
        /\ totalRecords = lastResolved.snapTot

\* C7 (amended): when a page-change fetch fails, its resolution leaves the
\* total untouched and replaces the displayed records by the empty list.
C7_FailedFetchEmptiesRecords ==
    [][last'.kind = "pageFail" =>
          artworks' = <<>> /\ totalRecords' = totalRecords]_vars

C7_Witness ==
    /\ last.kind = "pageFail"
    /\ lastResolved.snapRecs # <<>>
    /\ artworks = <<>>
    /\ totalRecords = ServerTotal

\* C8: once every page-change fetch in flight has resolved, the displayed
\* records (and, if it succeeded, the total) are those delivered by the fetch
\* that resolved last, whatever the order of the requests.
C8_LastResolvedWins ==
    (BagCardinality(pageInflight) = 0 /\ lastResolved.page # 0) =>
        /\ artworks =
               FetchResult(lastResolved.page, lastResolved.rows,
                           lastResolved.ok)
        /\ lastResolved.ok => totalRecords = ServerTotal

C8_Witness ==
    /\ BagCardinality(pageInflight) = 0
    /\ last.kind = "pageOk"
    /\ <<lastResolved.page, lastResolved.rows>>
           # <<lazyState.page, lazyState.rows>>
    /\ artworks = ServerPage(lastResolved.page, lastResolved.rows)
    /\ artworks # ServerPage(lazyState.page, lazyState.rows)

\* C9 (as stated): select-all-on-page followed by deselect-all-on-page on the
\* same visible list gives back exactly the selection set from before.
C9_RoundTripRestores ==
    last.kind = "roundTrip" => selectedIds = last.pre

\* C9 (amended): select-all-on-page followed by deselect-all-on-page on the
\* same visible list V turns S into S \ V.
C9_RoundTripRemovesVisible ==
    last.kind = "roundTrip" => selectedIds = last.pre \ Range(last.vis)

C9_Witness ==
    /\ last.kind = "roundTrip"
    /\ last.pre \cap Range(last.vis) # {}
    /\ selectedIds # last.pre

\* C10: select-all-on-page and deselect-all-on-page change the membership
\* only of the ids of the displayed records.
C10_SelectAllTouchesVisibleOnly ==
    [][last'.kind \in {"selectAll", "deselectAll", "roundTrip"} =>
          \A x \in Ids \ Range(artworks) :
              (x \in selectedIds') <=> (x \in selectedIds)]_vars

C10_Witness ==
    /\ last.kind \in {"selectAll", "deselectAll", "roundTrip"}
    /\ \E x \in selectedIds : x \notin Range(artworks)

\* A step of the bulk selection (its start or the resolution of its fetch)
BulkKinds == {"bulkStart", "bulkStep", "bulkDone"}

\* The step is a call of onSelectRows
SelectRowsCalled == last'.kind \in {"bulkStart", "bulkDone"} /\ ops' = ops + 1

\* Some fetch is in flight
FetchInFlight == BagCardinality(pageInflight) > 0 \/ bulk.pc = "fetching"

\* Every displayed record is selected
AllVisibleSelected == Range(artworks) \subseteq selectedIds

\* C11 (as stated): in every reachable state the header checkbox is checked
\* exactly if every displayed record is selected, an empty page included.
C11_CheckedIffAllSelected ==
    HeaderChecked <=> AllVisibleSelected

\* C11 (amended): in every reachable state the header checkbox is checked
\* exactly if the page has at least one record and every displayed record is
\* selected.
C11_CheckedIffNonEmptyAllSelected ==
    HeaderChecked <=> (artworks # <<>> /\ AllVisibleSelected)

C11_Witness ==
    /\ last.kind = "selectAll"
    /\ artworks = <<>>
    /\ AllVisibleSelected
    /\ ~HeaderChecked

\* C12: a bulk selection started at page 1 with k above the number of
\* unselected records of the collection ends, all fetches succeeding and no
\* other selection operation in between, with every record selected.
C12_SelectsEverything ==
    (/\ BulkDoneOk
     /\ ~bulk.disturbed
     /\ bulk.startPage = 1
     /\ bulk.k > Cardinality(Ids \ bulk.sel0)) =>
        selectedIds = Ids

\* C13 (as stated): after a failed page-change fetch the total is the one
\* stored when that fetch was issued.
C13_TotalAsWhenIssued ==
    last.kind = "pageFail" => totalRecords = lastResolved.snapTot

\* C13 (amended): a failed fetch hands an empty list to its caller (the
\* displayed records become empty; the bulk selection adds nothing and its
\* remaining count stays) and leaves the total at the value it had just
\* before the fetch resolved.
C13_FailedFetchEmptyAndTotalKept ==
    [][/\ last'.kind = "pageFail" =>
              artworks' = <<>> /\ totalRecords' = totalRecords
       /\ (bulk.pc = "fetching" /\ bulk'.failed # bulk.failed) =>
              /\ bulk'.updated = bulk.updated
              /\ bulk'.remaining = bulk.remaining
              /\ totalRecords' = totalRecords]_vars

C13_Witness ==
    /\ bulk.failed # {}
    /\ bulk.updated # bulk.sel0
    /\ totalRecords = ServerTotal
    /\ lastResolved.page # 0 /\ ~lastResolved.ok

\* C14: right after select-all-on-page every displayed id is selected, right
\* after deselect-all-on-page none is, whatever was selected before; doing
\* the same add or the same remove once more changes nothing.
C14_AddRemoveIdempotent ==
    [][/\ last'.kind = "selectAll" =>
              /\ Range(artworks) \subseteq selectedIds'
              /\ AfterSelectAll(TRUE)' = selectedIds'
       /\ last'.kind \in {"deselectAll", "roundTrip"} =>
              /\ Range(artworks) \cap selectedIds' = {}
              /\ AfterSelectAll(FALSE)' = selectedIds']_vars

C14_Witness ==
    /\ last.kind = "selectAll"
    /\ last.pre \cap Range(artworks) # {}
    /\ ~(Range(artworks) \subseteq last.pre)
    /\ AllVisibleSelected

\* C15: the fetches of one bulk selection are sequential: at most one is in
\* flight, the pages are requested in order, one after the start page at a
\* time, none before the earlier ones have resolved, and the start page is
\* never fetched.
C15_FetchesSequential ==
    /\ Cardinality(bulk.pending) <= 1
    /\ bulk.startPage \notin bulk.issued
    /\ \A p \in bulk.issued :
          p > bulk.startPage /\ (p - 1 = bulk.startPage \/ p - 1 \in bulk.issued)
    /\ \A p \in bulk.pending : \A q \in bulk.issued : q <= p
    /\ (bulk.pc = "fetching") <=> (bulk.pending # {})

C15_Witness ==
    /\ bulk.pc = "fetching"
    /\ Cardinality(bulk.issued) >= 2
    /\ bulk.pending = {bulk.startPage + 2}

\* C16: onSelectRows with a count of 0 or less issues no fetch and leaves the
\* membership of the selection set as it was.
C16_NonPositiveCountNoOp ==
    [][(SelectRowsCalled /\ rowCountToSelect <= 0) =>
          /\ selectedIds' = selectedIds
          /\ bulk'.pc = "done"
          /\ bulk'.issued = {}
          /\ loading' = loading
          /\ pageInflight' = pageInflight]_vars

C16_Witness ==
    /\ last.kind = "bulkDone"
    /\ bulk.pc = "done"
    /\ bulk.k <= 0
    /\ selectedIds # {}

\* C17: in every reachable state page = floor(first / rows) + 1.
C17_PageIndexFromOffset ==
    lazyState.page = (lazyState.first \div lazyState.rows) + 1

C17_Witness ==
    /\ lazyState.first > 0
    /\ lazyState.rows # DefaultRows
    /\ lazyState.page > 1

\* C18: whenever no fetch is in flight the loading flag is false.
C18_IdleNotLoading ==
    ~FetchInFlight => ~loading

C18_Witness ==
    /\ ~FetchInFlight
    /\ last.kind = "pageFail"
    /\ ~loading

\* C19: whenever a fetch is in flight the loading flag is true.
C19_InFlightLoading ==
    FetchInFlight => loading

\* C20: no step of a bulk selection changes the offset, the page size, the
\* page index or the displayed records.
C20_BulkKeepsPagination ==
    [][last'.kind \in BulkKinds =>
          lazyState' = lazyState /\ artworks' = artworks]_vars

C20_Witness ==
    /\ last.kind = "bulkDone"
    /\ bulk.issued # {}
    /\ bulk.failed = {}
    /\ artworks # <<>>
    /\ artworks = ServerPage(lazyState.page, lazyState.rows)

====
